---------------------------- MODULE Spec2Model ----------------------------
(***************************************************************************)
(* Grid7 API (src/main.py): the live aggregator fetch_live_articles, the   *)
(* seeding and warm-up done at startup, and the request handlers           *)
(* get_articles, get_launches and trigger_refresh over the document store. *)
(*                                                                         *)
(* Specifications:                                                         *)
(*   SpecFetch     fetch_live_articles as a function of the feeds'         *)
(*                 content, the per-feed cap and the clock readings of     *)
(*                 its sort;                                               *)
(*   Spec          the service: startup, then overlapping requests of any  *)
(*                 kind, one store call per step;                          *)
(*   SpecStartup   startup_event alone;                                    *)
(*   SpecRefresh   startup, then overlapping trigger_refresh requests;     *)
(*   SpecArticles  one get_articles request with any category and limit.   *)
(***************************************************************************)
EXTENDS Integers, Sequences, FiniteSets, TLC

VARIABLES
    feeds,          \* what each source of TECH_FEEDS yields (the outside world)
    max_per_feed,   \* SpecFetch: the argument of fetch_live_articles
    fetched,        \* SpecFetch: [state, items, nows] of the call
    db,             \* the store handle of database.py: configured or not
    article,        \* the "article" collection, in insertion order
    launch,         \* the "launch" collection, in insertion order
    started,        \* startup_event has finished: requests are served
    proc            \* per process: the handler it runs, its position, its locals

vars == <<feeds, max_per_feed, fetched, db, article, launch, started, proc>>

(***************************************************************************)
(* Bounds of the model.                                                    *)
(***************************************************************************)
\* entries over all feeds together, in SpecFetch
MaxEntries == 2
\* entries over all feeds together, in Spec
MaxLiveEntries == 2
\* request handlers that may overlap, in Spec
MaxRequests == 2

(***************************************************************************)
(* Values.                                                                 *)
(***************************************************************************)
\* Python's None for published_parsed, updated_parsed and published_at;
\* times are 1, 2, 3, ...
None == 0

\* The time at which the calls of the model happen: a call to datetime.now
\* reads Now or, when the clock ticks during the call, Now + 1.
Now == 2

ClockReadings == {Now, Now + 1}

CATEGORY_SET == {"AI", "OS", "Gadgets", "Other"}

TECH_FEEDS == <<"The Verge", "TechCrunch", "Ars Technica", "Engadget">>

KEYWORD_TO_CATEGORY ==
    << <<"ai", "AI">>, <<"artificial intelligence", "AI">>,
       <<"machine learning", "AI">>, <<"linux", "OS">>, <<"windows", "OS">>,
       <<"android", "OS">>, <<"ios", "OS">>, <<"macos", "OS">>,
       <<"iphone", "Gadgets">>, <<"ipad", "Gadgets">>, <<"watch", "Gadgets">>,
       <<"laptop", "Gadgets">>, <<"phone", "Gadgets">>, <<"camera", "Gadgets">> >>

\* A text is modelled by the set of keywords that occur in it (kw in t).
RECURSIVE InferFrom(_, _)
InferFrom(t, i) ==
    IF i > Len(KEYWORD_TO_CATEGORY) THEN "Other"
    ELSE IF KEYWORD_TO_CATEGORY[i][1] \in t THEN KEYWORD_TO_CATEGORY[i][2]
    ELSE InferFrom(t, i + 1)

_infer_category(t) == InferFrom(t, 1)


(***************************************************************************)
(* Feed entries.  A raw entry carries a title (a number standing for a     *)
(* distinct title string), a text (the keywords occurring in title and     *)
(* summary), a link and the two parsed dates.                              *)
(***************************************************************************)
NoLink == "absent"
GoodLink == "https://example.com/a"
BadLink == "not a url"

\* The shapes feed entries are drawn from: dated before now, dated ahead of
\* every clock reading, dated exactly now, undated, dated by `updated` only,
\* and one whose link is no well-formed URL.
EntryShapes ==
    { [text |-> {"ai"}, link |-> GoodLink,
       published_parsed |-> Now - 1, updated_parsed |-> None],
      [text |-> {"laptop"}, link |-> GoodLink,
       published_parsed |-> Now + 2, updated_parsed |-> Now + 2],
      [text |-> {"ios", "iphone"}, link |-> NoLink,
       published_parsed |-> Now, updated_parsed |-> None],
      [text |-> {}, link |-> GoodLink,
       published_parsed |-> None, updated_parsed |-> None],
      [text |-> {"linux"}, link |-> NoLink,
       published_parsed |-> None, updated_parsed |-> Now - 1],
      [text |-> {"camera"}, link |-> BadLink,
       published_parsed |-> Now - 1, updated_parsed |-> None] }

Entry(shape, i) ==
    [title |-> i, text |-> shape.text, link |-> shape.link,
     published_parsed |-> shape.published_parsed,
     updated_parsed |-> shape.updated_parsed]

\* The entries of one feed: the i-th entry carries title i.
EntrySeqs(n) ==
    { [i \in 1..n |-> Entry(s[i], i)] : s \in [1..n -> EntryShapes] }

Unreachable == [reachable |-> FALSE, entries |-> <<>>]

FeedValues(budget) ==
    {Unreachable} \cup
    { [reachable |-> TRUE, entries |-> es] :
        es \in UNION { EntrySeqs(n) : n \in 0..budget } }

\* What the n first sources may yield, with at most `budget` entries in all.
RECURSIVE FeedConfigs(_, _)
FeedConfigs(n, budget) ==
    IF n = 0 THEN { <<>> }
    ELSE UNION { { Append(rest, f) : rest \in FeedConfigs(n - 1, budget - Len(f.entries)) }
                 : f \in FeedValues(budget) }

Take(s, n) == SubSeq(s, 1, IF n < Len(s) THEN n ELSE Len(s))

(***************************************************************************)
(* fetch_live_articles                                                     *)
(***************************************************************************)
\* ArticleSchema(...) validates links as HttpUrl and raises on a bad one.
EntryRaises(e) == e.link = BadLink

Published(e) ==
    IF e.published_parsed # None THEN e.published_parsed
    ELSE IF e.updated_parsed # None THEN e.updated_parsed
    ELSE None

\* The article of an entry.  Titles are non-empty and distinct, so headline
\* is the title; summary and content play no part in what follows and are
\* left out, as is the truncation of the texts.
Normalize(source, e) ==
    [source |-> source,
     category |-> _infer_category(e.text),
     headline |-> e.title,
     links |-> IF e.link # NoLink THEN <<e.link>> ELSE <<>>,
     published_at |-> Published(e)]

\* The inner for loop, inside the try: an entry that raises leaves the loop,
\* and the except clause goes on with the next source.
RECURSIVE FeedLoop(_, _, _, _)
FeedLoop(source, entries, i, items) ==
    IF i > Len(entries) THEN items
    ELSE IF EntryRaises(entries[i]) THEN items
    ELSE FeedLoop(source, entries, i + 1, Append(items, Normalize(source, entries[i])))

RECURSIVE SourceLoop(_, _, _, _)
SourceLoop(fs, k, cap, items) ==
    IF k > Len(TECH_FEEDS) THEN items
    ELSE IF ~fs[k].reachable THEN SourceLoop(fs, k + 1, cap, items)
    ELSE SourceLoop(fs, k + 1, cap,
                    FeedLoop(TECH_FEEDS[k], Take(fs[k].entries, cap), 1, items))

\* The sort key of the i-th item: nows[i] is what datetime.now returns when
\* the key of the i-th item is computed.
SortKey(a, now) == IF a.published_at # None THEN a.published_at ELSE now

Keyed(items, nows) ==
    [i \in 1..Len(items) |-> [key |-> SortKey(items[i], nows[i]), item |-> items[i]]]

InsertDesc(sorted, p) ==
    LET n == Cardinality({ i \in 1..Len(sorted) : sorted[i].key >= p.key })
    IN  SubSeq(sorted, 1, n) \o <<p>> \o SubSeq(sorted, n + 1, Len(sorted))

InsertAsc(sorted, p) ==
    LET n == Cardinality({ i \in 1..Len(sorted) : sorted[i].key <= p.key })
    IN  SubSeq(sorted, 1, n) \o <<p>> \o SubSeq(sorted, n + 1, Len(sorted))

RECURSIVE SortFrom(_, _, _)
SortFrom(ks, i, sorted) ==
    IF i > Len(ks) THEN sorted ELSE SortFrom(ks, i + 1, InsertDesc(sorted, ks[i]))

RECURSIVE SortAscFrom(_, _, _)
SortAscFrom(ks, i, sorted) ==
    IF i > Len(ks) THEN sorted ELSE SortAscFrom(ks, i + 1, InsertAsc(sorted, ks[i]))

\* items.sort(key=..., reverse=True) without reverse=True
SortOldest(items, nows) == SortAscFrom(Keyed(items, nows), 1, <<>>)

\* items.sort(key=lambda a: a.published_at or datetime.now(timezone.utc),
\* reverse=True): stable, keys taken once per item in list order.
SortNewest(items, nows) == SortFrom(Keyed(items, nows), 1, <<>>)

Items(keyed) == [i \in 1..Len(keyed) |-> keyed[i].item]

\* The readings of a clock that does not run backwards, one per item.
NowSeqs(n) ==
    { [i \in 1..n |-> IF i <= k THEN Now ELSE Now + 1] : k \in 0..n }

MaxItems == 60

\* The result with the key each item was sorted by.
fetch_live_articles(fs, cap, nows) ==
    Take(SortNewest(SourceLoop(fs, 1, cap, <<>>), nows), MaxItems)

Collected(fs, cap) == SourceLoop(fs, 1, cap, <<>>)

DefaultMaxPerFeed == 15

(***************************************************************************)
(* SpecFetch: one call of fetch_live_articles on any feed content.         *)
(***************************************************************************)
Idle == [state |-> "idle", keyed |-> <<>>]

InitFetch ==
    /\ feeds \in FeedConfigs(Len(TECH_FEEDS), MaxEntries)
    /\ max_per_feed \in {1, DefaultMaxPerFeed}
    /\ fetched = Idle
    /\ db = FALSE
    /\ article = <<>>
    /\ launch = <<>>
    /\ started = FALSE
    /\ proc = <<>>

Fetch ==
    /\ fetched.state = "idle"
    /\ \E nows \in NowSeqs(Len(Collected(feeds, max_per_feed))) :
         fetched' = [state |-> "returned",
                     keyed |-> fetch_live_articles(feeds, max_per_feed, nows)]
    /\ UNCHANGED <<feeds, max_per_feed, db, article, launch, started, proc>>

NextFetch == Fetch

SpecFetch == InitFetch /\ [][NextFetch]_vars

(***************************************************************************)
(* The store (database.py): db, create_document, get_documents and the     *)
(* collection methods count_documents and delete_many.  A collection is    *)
(* the sequence of its documents in insertion order.                       *)
(***************************************************************************)
NoFilter == "<all>"

Matches(doc, filter) == filter = NoFilter \/ doc.category = filter

Filtered(coll, filter) == SelectSeq(coll, LAMBDA d : Matches(d, filter))

\* get_documents(collection, filter_dict, limit)
get_documents(coll, filter, limit) == Take(Filtered(coll, filter), limit)

\* db[collection].count_documents(filter_dict)
count_documents(coll, filter) == Len(Filtered(coll, filter))

\* create_document(collection, data)
create_document(coll, doc) == Append(coll, doc)

\* db[collection].delete_many({})
delete_many(coll) == <<>>

\* A call to a configured store succeeds or raises (the store is out of
\* reach at that moment).
CallOutcomes == {"ok", "raises"}

\* get_documents without a configured store: it raises, or it yields nothing.
UnconfiguredOutcomes == {"raises", "empty"}

(***************************************************************************)
(* Requests.                                                               *)
(***************************************************************************)
NoCategory == "<absent>"

\* `category` alone: any value that is not absent or empty
AnyCategory(category) == category # NoCategory /\ category # ""

\* `category and category in CATEGORY_SET`
Recognized(category) ==
    category # NoCategory /\ category # "" /\ category \in CATEGORY_SET

\* filter_dict of get_articles
FilterDict(category) == IF Recognized(category) THEN category ELSE NoFilter

\* the filter of the fallback path
LiveFilter(items, category) ==
    IF Recognized(category)
    THEN SelectSeq(items, LAMBDA a : a.category = category)
    ELSE items

SeedLaunches == <<"NeuroNet 2.0", "Kernel 6.2 LTS", "Aurora Fold X", "OrbitalLink">>

DefaultLaunchLimit == 30
LimitMin == 1
LimitMax == 200
DefaultLimit == 40

NoResp == [status |-> "none", items |-> <<>>, total |-> 0, refreshed_at |-> None]

\* len(items) taken after items = items[:limit]
LiveTotalAfterCut(filtered, limit) == Len(Take(filtered, limit))

\* total of the fallback path: len(items) is taken before items[:limit]
LiveTotal(filtered, limit) == Len(filtered)

\* get_articles, lines 185-193: the fallback and the final sort.
LiveResponse(category, limit, live, nows, t) ==
    LET filtered == LiveFilter(live, category)
    IN  [status |-> "ok",
         items |-> Items(SortNewest(Take(filtered, limit), nows)),
         total |-> LiveTotal(filtered, limit),
         refreshed_at |-> t]

\* get_articles, lines 180-182 and 191-193: the store's documents, sorted.
StoreResponse(docs, total, nows, t) ==
    [status |-> "ok", items |-> Items(SortNewest(docs, nows)),
     total |-> total, refreshed_at |-> t]

Procs == 0..MaxRequests
Requests == 1..MaxRequests

IdleProc ==
    [op |-> "none", pc |-> "idle", category |-> NoCategory, limit |-> DefaultLimit,
     k |-> 0, docs |-> <<>>, live |-> <<>>, via |-> "", called_fetch |-> FALSE,
     resp |-> NoResp]

StartupProc == [IdleProc EXCEPT !.op = "startup_event", !.pc = "seed_check"]

Set(p, r) == proc' = [proc EXCEPT ![p] = r]

\* where a handler goes on after ensure_seed_data
AfterSeed(op) ==
    CASE op = "startup_event" -> "warm_check"
      [] op = "get_articles" -> "query"
      [] op = "get_launches" -> "launch_query"

\* Request p arrives: the service is up, and the requests are numbered in the
\* order of their arrival.
Arrives(p) ==
    /\ started
    /\ proc[p].pc = "idle"
    /\ \A q \in 1..(p - 1) : proc[q].pc # "idle"

BeginGetArticles(p, categories, limits) ==
    /\ Arrives(p)
    /\ \E c \in categories, l \in limits :
         Set(p, [IdleProc EXCEPT !.op = "get_articles", !.pc = "seed_check",
                                 !.category = c, !.limit = l])
    /\ UNCHANGED <<feeds, max_per_feed, fetched, db, article, launch, started>>

BeginGetLaunches(p) ==
    /\ Arrives(p)
    /\ Set(p, [IdleProc EXCEPT !.op = "get_launches", !.pc = "seed_check",
                            !.limit = DefaultLaunchLimit])
    /\ UNCHANGED <<feeds, max_per_feed, fetched, db, article, launch, started>>

BeginRefresh(p) ==
    /\ Arrives(p)
    /\ Set(p, [IdleProc EXCEPT !.op = "trigger_refresh", !.pc = "refresh_delete",
                            !.resp = [NoResp EXCEPT !.refreshed_at = Now]])
    /\ UNCHANGED <<feeds, max_per_feed, fetched, db, article, launch, started>>

(***************************************************************************)
(* ensure_seed_data                                                        *)
(***************************************************************************)
\* seeding without looking at the count
SeedWantedWhateverCount(outcome) == db /\ outcome = "ok"

\* `db and db["launch"].count_documents({}) == 0`
SeedWanted(outcome) ==
    db /\ outcome = "ok" /\ count_documents(launch, NoFilter) = 0

SeedCheck(p) ==
    /\ proc[p].pc = "seed_check"
    /\ \E outcome \in CallOutcomes :
         IF SeedWanted(outcome)
         THEN Set(p, [proc[p] EXCEPT !.pc = "seed_insert", !.k = 1])
         ELSE Set(p, [proc[p] EXCEPT !.pc = AfterSeed(proc[p].op)])
    /\ UNCHANGED <<feeds, max_per_feed, fetched, db, article, launch, started>>

\* one turn of `for ln in seed_launches: create_document("launch", ln)`
SeedInsert(p) ==
    /\ proc[p].pc = "seed_insert"
    /\ \E outcome \in CallOutcomes :
         IF outcome = "ok"
         THEN /\ launch' = create_document(launch, SeedLaunches[proc[p].k])
              /\ IF proc[p].k = Len(SeedLaunches)
                 THEN Set(p, [proc[p] EXCEPT !.pc = AfterSeed(proc[p].op), !.k = 0])
                 ELSE Set(p, [proc[p] EXCEPT !.k = @ + 1])
         ELSE /\ launch' = launch
              /\ Set(p, [proc[p] EXCEPT !.pc = AfterSeed(proc[p].op), !.k = 0])
    /\ UNCHANGED <<feeds, max_per_feed, fetched, db, article, started>>

(***************************************************************************)
(* startup_event                                                           *)
(***************************************************************************)
\* a check that takes a raising count for an empty collection
WarmWantedAlsoOnError(outcome) ==
    db /\ (outcome = "raises" \/ count_documents(article, NoFilter) = 0)

\* `db and db["article"].count_documents({}) == 0`: the warm-up runs when the
\* store is configured and the count comes back 0.
WarmWanted(outcome) ==
    db /\ outcome = "ok" /\ count_documents(article, NoFilter) = 0

WarmBranch(outcome) ==
    IF ~db THEN "no_db"
    ELSE IF outcome = "raises" THEN "check_raised"
    ELSE IF count_documents(article, NoFilter) = 0 THEN "empty" ELSE "not_empty"

WarmCheck(p) ==
    /\ proc[p].pc = "warm_check"
    /\ \E outcome \in CallOutcomes :
         IF WarmWanted(outcome)
         THEN \E nows \in NowSeqs(Len(Collected(feeds, DefaultMaxPerFeed))) :
                LET live == Items(fetch_live_articles(feeds, DefaultMaxPerFeed, nows))
                IN  /\ Set(p, [proc[p] EXCEPT
                                 !.pc = IF live = <<>> THEN "done" ELSE "warm_insert",
                                 !.k = IF live = <<>> THEN 0 ELSE 1,
                                 !.live = live,
                                 !.via = WarmBranch(outcome),
                                 !.called_fetch = TRUE])
                    /\ started' = (live = <<>>)
         ELSE /\ Set(p, [proc[p] EXCEPT !.pc = "done", !.via = WarmBranch(outcome)])
              /\ started' = TRUE
    /\ UNCHANGED <<feeds, max_per_feed, fetched, db, article, launch>>

\* one turn of `for art in fetch_live_articles(): create_document("article", art)`
WarmInsert(p) ==
    /\ proc[p].pc = "warm_insert"
    /\ \E outcome \in CallOutcomes :
         IF outcome = "ok"
         THEN /\ article' = create_document(article, proc[p].live[proc[p].k])
              /\ IF proc[p].k = Len(proc[p].live)
                 THEN /\ Set(p, [proc[p] EXCEPT !.pc = "done"])
                      /\ started' = TRUE
                 ELSE /\ Set(p, [proc[p] EXCEPT !.k = @ + 1])
                      /\ started' = started
         ELSE /\ article' = article
              /\ Set(p, [proc[p] EXCEPT !.pc = "done"])
              /\ started' = TRUE
    /\ UNCHANGED <<feeds, max_per_feed, fetched, db, launch>>

(***************************************************************************)
(* get_articles                                                            *)
(***************************************************************************)
\* refreshed_at=datetime.now(timezone.utc) of the return: read after the keys
\* of the sort, so no earlier than the last of them.
LastReading(nows) == IF nows = <<>> THEN Now ELSE nows[Len(nows)]

\* The except branch, lines 185-189, and the return, lines 192-193.
Fallback(p) ==
    \E nows \in NowSeqs(Len(Collected(feeds, DefaultMaxPerFeed))) :
      LET live == Items(fetch_live_articles(feeds, DefaultMaxPerFeed, nows))
          cut == Take(LiveFilter(live, proc[p].category), proc[p].limit)
      IN  \E sortNows \in NowSeqs(Len(cut)) :
            Set(p, [proc[p] EXCEPT
                      !.pc = "done", !.via = "live", !.called_fetch = TRUE,
                      !.docs = <<>>,
                      !.resp = LiveResponse(proc[p].category, proc[p].limit,
                                            live, sortNows, LastReading(sortNows))])

\* The return of the store path, lines 180-182 and 192-193.
Respond(p, docs, total) ==
    \E sortNows \in NowSeqs(Len(docs)) :
      Set(p, [proc[p] EXCEPT
                !.pc = "done", !.via = "store", !.docs = <<>>,
                !.resp = StoreResponse(docs, total, sortNows, LastReading(sortNows))])

\* docs = get_documents("article", filter_dict=filter_dict, limit=limit)
Query(p) ==
    /\ proc[p].pc = "query"
    /\ IF db
       THEN \E outcome \in CallOutcomes :
              IF outcome = "ok"
              THEN Set(p, [proc[p] EXCEPT
                             !.pc = "count",
                             !.docs = get_documents(article,
                                          FilterDict(proc[p].category), proc[p].limit)])
              ELSE Fallback(p)
       ELSE \E outcome \in UnconfiguredOutcomes :
              IF outcome = "empty"
              THEN Respond(p, <<>>, Len(<<>>))
              ELSE Fallback(p)
    /\ UNCHANGED <<feeds, max_per_feed, fetched, db, article, launch, started>>

\* total = db["article"].count_documents(filter_dict) if db else len(docs)
Count(p) ==
    /\ proc[p].pc = "count"
    /\ \E outcome \in CallOutcomes :
         IF outcome = "ok"
         THEN Respond(p, proc[p].docs,
                      count_documents(article, FilterDict(proc[p].category)))
         ELSE Fallback(p)
    /\ UNCHANGED <<feeds, max_per_feed, fetched, db, article, launch, started>>

(***************************************************************************)
(* get_launches                                                            *)
(***************************************************************************)
LaunchResponse(items, total) ==
    [status |-> "ok", items |-> items, total |-> total, refreshed_at |-> None]

\* docs = get_documents("launch", limit=limit)
LaunchQuery(p) ==
    /\ proc[p].pc = "launch_query"
    /\ IF db
       THEN \E outcome \in CallOutcomes :
              IF outcome = "ok"
              THEN Set(p, [proc[p] EXCEPT
                             !.pc = "launch_count",
                             !.docs = Take(launch, proc[p].limit)])
              ELSE Set(p, [proc[p] EXCEPT !.pc = "done",
                                          !.resp = LaunchResponse(<<>>, 0)])
       ELSE Set(p, [proc[p] EXCEPT !.pc = "done", !.resp = LaunchResponse(<<>>, 0)])
    /\ UNCHANGED <<feeds, max_per_feed, fetched, db, article, launch, started>>

\* total = db["launch"].count_documents({}) if db else len(docs)
LaunchCount(p) ==
    /\ proc[p].pc = "launch_count"
    /\ \E outcome \in CallOutcomes :
         IF outcome = "ok"
         THEN Set(p, [proc[p] EXCEPT
                        !.pc = "done", !.docs = <<>>,
                        !.resp = LaunchResponse(proc[p].docs, Len(launch))])
         ELSE Set(p, [proc[p] EXCEPT !.pc = "done", !.docs = <<>>,
                                     !.resp = LaunchResponse(<<>>, 0)])
    /\ UNCHANGED <<feeds, max_per_feed, fetched, db, article, launch, started>>

(***************************************************************************)
(* trigger_refresh                                                         *)
(***************************************************************************)
\* return {"status": "ok", "refreshed_at": refreshed_at}
RefreshReturn(pr, via) ==
    [pr EXCEPT !.pc = "done", !.via = via, !.resp.status = "ok", !.k = 0]

\* a handler that lets the exception out: the caller gets no response
RefreshRaise(pr, via) == [pr EXCEPT !.pc = "raised", !.via = via, !.k = 0]

\* except Exception: pass, and then the return
RefreshExcept(pr, via) == RefreshReturn(pr, via)

\* live_items = fetch_live_articles(); if db: db["article"].delete_many({})
RefreshDelete(p) ==
    /\ proc[p].pc = "refresh_delete"
    /\ \E nows \in NowSeqs(Len(Collected(feeds, DefaultMaxPerFeed))) :
         LET live == Items(fetch_live_articles(feeds, DefaultMaxPerFeed, nows))
             pr == [proc[p] EXCEPT !.live = live, !.called_fetch = TRUE]
         IN  IF ~db
             THEN /\ Set(p, RefreshReturn(pr, "no_db"))
                  /\ article' = article
             ELSE \E outcome \in CallOutcomes :
                    IF outcome = "ok"
                    THEN /\ article' = delete_many(article)
                         /\ IF live = <<>>
                            THEN Set(p, RefreshReturn(pr, "stored"))
                            ELSE Set(p, [pr EXCEPT !.pc = "refresh_insert", !.k = 1])
                    ELSE /\ article' = article
                         /\ Set(p, RefreshExcept(pr, "delete_raised"))
    /\ UNCHANGED <<feeds, max_per_feed, fetched, db, launch, started>>

\* one turn of `for art in live_items: create_document("article", art)`
RefreshInsert(p) ==
    /\ proc[p].pc = "refresh_insert"
    /\ \E outcome \in CallOutcomes :
         IF outcome = "ok"
         THEN /\ article' = create_document(article, proc[p].live[proc[p].k])
              /\ IF proc[p].k = Len(proc[p].live)
                 THEN Set(p, RefreshReturn(proc[p], "stored"))
                 ELSE Set(p, [proc[p] EXCEPT !.k = @ + 1])
         ELSE /\ article' = article
              /\ Set(p, RefreshExcept(proc[p], "insert_raised"))
    /\ UNCHANGED <<feeds, max_per_feed, fetched, db, launch, started>>

(***************************************************************************)
(* Spec: the service.  startup_event runs alone; then up to MaxRequests    *)
(* requests are handled, overlapping in any way, every store call a step.  *)
(***************************************************************************)
\* Feed content with only the first source in reach.
OneSource(budget) ==
    { [k \in 1..Len(TECH_FEEDS) |-> IF k = 1 THEN f ELSE Unreachable] :
        f \in FeedValues(budget) }

\* Entries that normalize and carry a `published` date before now.
PlainEntry(e) == ~EntryRaises(e) /\ e.published_parsed # None /\ e.published_parsed < Now

ServiceFeeds ==
    { fs \in OneSource(MaxLiveEntries) :
        \A i \in 1..Len(fs[1].entries) : PlainEntry(fs[1].entries[i]) }

\* An article stored by an earlier run of the service.
OldArticle ==
    [source |-> "Seed", category |-> "Other", headline |-> 0, links |-> <<>>,
     published_at |-> None]

Init ==
    /\ feeds \in ServiceFeeds
    /\ max_per_feed = DefaultMaxPerFeed
    /\ fetched = Idle
    /\ db \in BOOLEAN
    /\ article \in IF db THEN {<<>>, <<OldArticle>>} ELSE {<<>>}
    /\ launch \in IF db THEN {<<>>, SeedLaunches} ELSE {<<>>}
    /\ started = FALSE
    /\ proc = [p \in Procs |-> IF p = 0 THEN StartupProc ELSE IdleProc]

Next ==
    \E p \in Procs :
        \/ SeedCheck(p)
        \/ SeedInsert(p)
        \/ WarmCheck(p)
        \/ WarmInsert(p)
        \/ BeginGetArticles(p, {NoCategory}, {DefaultLimit})
        \/ BeginGetLaunches(p)
        \/ BeginRefresh(p)
        \/ Query(p)
        \/ Count(p)
        \/ LaunchQuery(p)
        \/ LaunchCount(p)
        \/ RefreshDelete(p)
        \/ RefreshInsert(p)

Spec == Init /\ [][Next]_vars

(***************************************************************************)
(* SpecStartup: startup_event alone, from any store and warm-up content.   *)
(* SpecRefresh: startup_event, then overlapping trigger_refresh requests.  *)
(***************************************************************************)
\* Feed content whose entries normalize and carry no `updated` date.
ArticleFeeds ==
    { fs \in OneSource(MaxEntries) :
        \A i \in 1..Len(fs[1].entries) :
            ~EntryRaises(fs[1].entries[i]) /\ fs[1].entries[i].updated_parsed = None }

InitStartup ==
    /\ feeds \in ArticleFeeds
    /\ max_per_feed = DefaultMaxPerFeed
    /\ fetched = Idle
    /\ db \in BOOLEAN
    /\ article \in IF db THEN {<<>>, <<OldArticle>>} ELSE {<<>>}
    /\ launch \in IF db THEN {<<>>, SeedLaunches} ELSE {<<>>}
    /\ started = FALSE
    /\ proc = [p \in Procs |-> IF p = 0 THEN StartupProc ELSE IdleProc]

NextStartup ==
    \E p \in {0} :
        \/ SeedCheck(p)
        \/ SeedInsert(p)
        \/ WarmCheck(p)
        \/ WarmInsert(p)

SpecStartup == InitStartup /\ [][NextStartup]_vars

NextRefresh ==
    \E p \in Procs :
        \/ SeedCheck(p)
        \/ SeedInsert(p)
        \/ WarmCheck(p)
        \/ WarmInsert(p)
        \/ BeginRefresh(p)
        \/ RefreshDelete(p)
        \/ RefreshInsert(p)

SpecRefresh == Init /\ [][NextRefresh]_vars

(***************************************************************************)
(* SpecArticles: one get_articles request, with any category and limit,    *)
(* against a store that is unconfigured, out of reach, empty or warmed.    *)
(***************************************************************************)
Categories == {NoCategory, "", "AI", "OS", "Gadgets", "Other", "Sports", "ai"}

\* limit: int = Query(default=40, ge=1, le=200)
Limits == {LimitMin, LimitMin + 1, DefaultLimit, LimitMax}

\* What fetch_live_articles may return for the feeds' content.
LiveResults ==
    { Items(fetch_live_articles(feeds, DefaultMaxPerFeed, nows)) :
        nows \in NowSeqs(Len(Collected(feeds, DefaultMaxPerFeed))) }

DoneProc == [IdleProc EXCEPT !.op = "startup_event", !.pc = "done"]

InitArticles ==
    /\ feeds \in ArticleFeeds
    /\ max_per_feed = DefaultMaxPerFeed
    /\ fetched = Idle
    /\ db \in BOOLEAN
    /\ article \in IF db
                   THEN {<<>>} \cup LiveResults
                               \cup { <<OldArticle>> \o l : l \in LiveResults }
                   ELSE {<<>>}
    /\ launch \in IF db THEN {<<>>, SeedLaunches} ELSE {<<>>}
    /\ started = TRUE
    /\ proc = [p \in Procs |-> IF p = 0 THEN DoneProc ELSE IdleProc]

NextArticles ==
    \E p \in {1} :
        \/ BeginGetArticles(p, Categories, Limits)
        \/ SeedCheck(p)
        \/ SeedInsert(p)
        \/ Query(p)
        \/ Count(p)

SpecArticles == InitArticles /\ [][NextArticles]_vars

(***************************************************************************)
(* Properties of fetch_live_articles (SpecFetch).                          *)
(***************************************************************************)
Returned == fetched.state = "returned"

Result == Items(fetched.keyed)

\* The entries of source k that are read: feed.entries[:max_per_feed].
ReadEntries(k) == Take(feeds[k].entries, max_per_feed)

\* The articles of the well-formed entries read from the reachable sources.
WellFormedArticles ==
    { Normalize(TECH_FEEDS[k], ReadEntries(k)[i]) :
        <<k, i>> \in { ki \in (1..Len(TECH_FEEDS)) \X (1..MaxEntries) :
                         /\ feeds[ki[1]].reachable
                         /\ ki[2] <= Len(ReadEntries(ki[1]))
                         /\ ~EntryRaises(ReadEntries(ki[1])[ki[2]]) } }

InResult(a) == \E j \in 1..Len(Result) : Result[j] = a

SortedByKey ==
    \A i, j \in 1..Len(fetched.keyed) :
        i < j => fetched.keyed[i].key >= fetched.keyed[j].key

\* C2: an entry that fails normalization or validation is skipped alone:
\* every well-formed entry of the same feed within the per-feed cap, those
\* after the bad entry included, is in the aggregated result.
C2_BadEntrySkippedAlone ==
    Returned => \A a \in WellFormedArticles : InResult(a)

\* C3: with some sources failing, the call returns normally and its result
\* is exactly the normalized entries of the remaining sources (up to the
\* caps), each once, sorted.
C3_FailingSourcesSkipped ==
    (Returned /\ \E k \in 1..Len(TECH_FEEDS) : ~feeds[k].reachable) =>
        /\ { Result[j] : j \in 1..Len(Result) } = WellFormedArticles
        /\ Len(Result) = Cardinality(WellFormedArticles)
        /\ SortedByKey

\* C7 as claimed: at most 60 entries, sorted non-increasing by effective
\* published time, and every entry without a timestamp precedes every entry
\* that has one.
C7_UndatedBeforeEveryDated ==
    Returned =>
        /\ Len(Result) <= MaxItems
        /\ SortedByKey
        /\ \A i, j \in 1..Len(Result) :
               (Result[i].published_at = None /\ Result[j].published_at # None)
                   => i < j

\* C7 amended: at most 60 entries, sorted non-increasing by effective
\* published time (an undated entry counting as published when its key is
\* taken), and every entry without a timestamp precedes every entry dated
\* before the call began.
C7_UndatedBeforeEarlierDated ==
    Returned =>
        /\ Len(Result) <= MaxItems
        /\ SortedByKey
        /\ \A i, j \in 1..Len(Result) :
               (/\ Result[i].published_at = None
                /\ Result[j].published_at # None
                /\ Result[j].published_at < Now)
                   => i < j

\* An undated entry was collected after an entry dated before the call, and
\* the sort moved it in front.
C7_Witness ==
    /\ Returned
    /\ LET c == Collected(feeds, max_per_feed)
       IN  /\ Len(c) = 2
           /\ c[1].published_at # None /\ c[1].published_at < Now
           /\ c[2].published_at = None
           /\ Result = <<c[2], c[1]>>


(***************************************************************************)
(* Properties of get_articles (SpecArticles).                              *)
(***************************************************************************)
Answered(p) == proc[p].op = "get_articles" /\ proc[p].pc = "done"

Min(a, b) == IF a < b THEN a ELSE b

\* The same articles, in any order (the articles compared are distinct).
SameArticles(s, t) ==
    /\ Len(s) = Len(t)
    /\ { s[i] : i \in 1..Len(s) } = { t[i] : i \in 1..Len(t) }

\* The articles of `items` a request for `category` is to get.
Wanted(items, category) ==
    IF category \in CATEGORY_SET
    THEN SelectSeq(items, LAMBDA a : a.category = category)
    ELSE items

\* C1 as claimed: on the fallback path the items are the live articles of
\* the category cut to limit, and total is the number of items returned,
\* at most limit.
C1_TotalIsCappedCount ==
    \A p \in Requests :
        (Answered(p) /\ proc[p].via = "live") =>
            \E live \in LiveResults :
                /\ SameArticles(proc[p].resp.items,
                                Take(Wanted(live, proc[p].category), proc[p].limit))
                /\ proc[p].resp.total = Len(proc[p].resp.items)
                /\ proc[p].resp.total <= proc[p].limit

\* C1 amended: on the fallback path the items are the live articles of the
\* category cut to limit, and total is the number of live articles of the
\* category before the cut (at most 60): min(total, limit) items are
\* returned, and total exceeds limit when the cut drops articles.
C1_TotalIsFilteredCount ==
    \A p \in Requests :
        (Answered(p) /\ proc[p].via = "live") =>
            \E live \in LiveResults :
                /\ SameArticles(proc[p].resp.items,
                                Take(Wanted(live, proc[p].category), proc[p].limit))
                /\ proc[p].resp.total = Len(Wanted(live, proc[p].category))
                /\ Len(proc[p].resp.items) = Min(proc[p].resp.total, proc[p].limit)
                /\ proc[p].resp.total <= MaxItems

\* The fallback answered a request for a category and cut articles of it away.
C1_Witness ==
    \E p \in Requests :
        /\ Answered(p) /\ proc[p].via = "live"
        /\ proc[p].category \in CATEGORY_SET
        /\ proc[p].resp.total > Len(proc[p].resp.items)
        /\ Len(proc[p].resp.items) = proc[p].limit

\* C9: on either path, a category of CATEGORY_SET yields only items of that
\* category; an absent or any other category yields what a request without
\* category yields: the first `limit` documents of the store with the count
\* of all of them, or the first `limit` live articles with their number.
C9_CategoryFilter ==
    \A p \in Requests :
        Answered(p) =>
            LET r == proc[p].resp
                c == proc[p].category
            IN  /\ c \in CATEGORY_SET =>
                     \A i \in 1..Len(r.items) : r.items[i].category = c
                /\ (c \notin CATEGORY_SET /\ proc[p].via = "store") =>
                     /\ SameArticles(r.items, Take(article, proc[p].limit))
                     /\ r.total = Len(article)
                /\ (c \notin CATEGORY_SET /\ proc[p].via = "live") =>
                     \E live \in LiveResults :
                         /\ SameArticles(r.items, Take(live, proc[p].limit))
                         /\ r.total = Len(live)

\* A request for a category outside CATEGORY_SET was answered from the store
\* with articles of two categories.
C9_Witness ==
    \E p \in Requests :
        /\ Answered(p) /\ proc[p].via = "store"
        /\ proc[p].category = "Sports"
        /\ \E i, j \in 1..Len(proc[p].resp.items) :
               proc[p].resp.items[i].category # proc[p].resp.items[j].category

(***************************************************************************)
(* Properties of the service (Spec).                                       *)
(***************************************************************************)
Refreshing(p) == proc[p].op = "trigger_refresh"

NoDuplicates(s) == \A i, j \in 1..Len(s) : i # j => s[i] # s[j]

\* C4: a refresh on a configured store whose store calls all succeeded
\* leaves, when it returns, exactly its fresh results in the collection,
\* each once.
C4_RefreshReplacesCollection ==
    [][ \A p \in Requests :
          (/\ Refreshing(p) /\ db
           /\ proc[p].pc # "done" /\ proc'[p].pc = "done"
           /\ proc'[p].via = "stored")
              => article' = proc'[p].live ]_vars

\* C10: once overlapping refreshes over the same feed content have all
\* returned, with every store call having succeeded, the collection holds
\* each fresh article exactly once.
C10_OverlappingRefreshes ==
    (db /\ \A p \in Requests :
              Refreshing(p) /\ proc[p].pc = "done" /\ proc[p].via = "stored")
        => /\ NoDuplicates(article)
           /\ \A p \in Requests : SameArticles(article, proc[p].live)

WarmUpAttempted == proc[0].called_fetch

WarmUpDecided == proc[0].pc \in {"warm_insert", "done"}

\* C5 as claimed: the warm-up is attempted when the collection is empty and
\* when the emptiness check fails, and not when the collection holds articles.
C5_SeedsAlsoWhenCheckFails ==
    WarmUpDecided =>
        /\ proc[0].via \in {"empty", "check_raised"} => WarmUpAttempted
        /\ proc[0].via = "not_empty" => ~WarmUpAttempted

\* C5 amended: the warm-up is attempted exactly when the store is configured
\* and the emptiness check succeeds and finds the collection empty; it is not
\* attempted when the check raises, when the store is not configured or when
\* the collection holds articles.  An attempted warm-up persists the live
\* articles one by one, in order.
C5_SeedsOnlyWhenFoundEmpty ==
    WarmUpDecided =>
        /\ proc[0].via = "empty" => (WarmUpAttempted /\ db)
        /\ proc[0].via \in {"check_raised", "not_empty", "no_db"} => ~WarmUpAttempted
        /\ (WarmUpAttempted /\ ~started) =>
               article = SubSeq(proc[0].live, 1, proc[0].k - 1)
        /\ (~WarmUpAttempted /\ ~started) => article \in {<<>>, <<OldArticle>>}

\* The emptiness check raised, and startup ended without a warm-up.
C5_Witness ==
    /\ proc[0].pc = "done"
    /\ proc[0].via = "check_raised"
    /\ ~WarmUpAttempted
    /\ article = <<>>

\* C6 as claimed: launch records are written at startup only, each seed at
\* most once; no request handled after startup inserts or changes one.
C6_LaunchesWrittenAtStartupOnly ==
    [][ launch' # launch => (~started /\ NoDuplicates(launch')) ]_vars

\* C6 amended: a launch record is written only by ensure_seed_data, which
\* runs at startup and at the start of every get_articles and get_launches
\* call, and only after that call found the launch collection empty; the
\* write appends the next seed launch and leaves the records there unchanged;
\* trigger_refresh writes none.
C6_LaunchesWrittenBySeedingOnly ==
    [][ /\ launch' # launch =>
             \E p \in Procs :
                 /\ proc[p].pc = "seed_insert"
                 /\ proc[p].op \in {"startup_event", "get_articles", "get_launches"}
                 /\ launch' = Append(launch, SeedLaunches[proc[p].k])
                 /\ \A q \in Procs \ {p} : proc'[q] = proc[q]
        /\ \A p \in Procs :
             (proc[p].pc # "seed_insert" /\ proc'[p].pc = "seed_insert")
                 => (db /\ launch = <<>> /\ proc[p].pc = "seed_check")
      ]_vars

\* A request handled after startup has inserted seed launches.
C6_Witness ==
    /\ started
    /\ \E p \in Requests : proc[p].pc = "seed_insert" /\ proc[p].k > 1
    /\ launch # <<>>

\* C8: trigger_refresh never lets an exception out, and what it returns
\* carries status "ok" and the refreshed_at it took on entry.
C8_RefreshAlwaysOk ==
    \A p \in Requests :
        Refreshing(p) =>
            /\ proc[p].pc \in {"refresh_delete", "refresh_insert", "done"}
            /\ proc[p].resp.refreshed_at # None
            /\ proc[p].pc = "done" =>
                   /\ proc[p].resp.status = "ok"
                   /\ proc[p].via \in {"no_db", "delete_raised", "insert_raised", "stored"}

\* A refresh returned "ok" although an insert raised midway and left part of
\* the fresh articles in the collection.
C8_Witness ==
    \E p \in Requests :
        /\ Refreshing(p) /\ proc[p].pc = "done"
        /\ proc[p].via = "insert_raised"
        /\ proc[p].resp.status = "ok"
        /\ article # <<>> /\ Len(article) < Len(proc[p].live)

=============================================================================
